---- MODULE Spec2Model ----
(***************************************************************************)
(* The pub/sub broker of temp_pub_sub.py: the Broker servicer's registry   *)
(* (subscribers, topic_subscribers_mutex), its re-entrant coarse lock, the *)
(* worker pool of the gRPC server that runs its handlers, and the three    *)
(* handlers subscribe, unsubscribe and publish, cut into steps at the      *)
(* points where a thread can block or another thread can run; and the      *)
(* Consumer, with the thread that calls its methods and its receive        *)
(* threads.                                                                *)
(***************************************************************************)
EXTENDS Integers, Sequences, FiniteSets, TLC

\* Number of RPC calls issued to the broker in one run (bound of the model).
MaxCalls == 3
\* Longest list of keys passed to remove_broken_subscribers by a direct call.
MaxKeys == 2
\* Number of Publish calls that the publisher sends in a run of the Consumer.
MaxPublishes == 2

\* futures.ThreadPoolExecutor(max_workers=10)
max_workers == 10

Topics == {"news", "sport"}
Ids == {1, 2}
Msgs == {"hi"}

NoCall == 0

VARIABLES
    calls,                  \* call -> the request it carries (kind, topic, id, message)
    pc,                     \* call -> position of its handler
    queue,                  \* work queue of the thread pool (FIFO)
    subscribers,            \* self.subscribers: topic -> insertion-ordered <<id, ctx>> items
    topic_subscribers_mutex,\* self.topic_subscribers_mutex: (topic, id) -> holder (NoCall = free)
    lock,                   \* self.lock, an RLock: owner and recursion count
    stream,                 \* call -> state of its context (the subscriber's stream)
    server,                 \* self.server: "created", "started" or "stopped"
    sent,                   \* call -> messages written to its context, in order
    iter,                   \* publish: position in the iteration over the topic's items
    broker_subscribers,     \* publish: the local list of broken keys
    result,                 \* call -> what the handler answered
    snap,                   \* history: the topic's items when publish took the coarse lock
    attempts,               \* history: the writes a publish attempted, with their outcome
    lastEvent,              \* history: (topic, id) -> the last registry change of the pair
    before                  \* history: lastEvent of its pair when an unsubscribe ran

\* The state of one Consumer and of its threads.  A receive thread and the
\* stream it was started for carry the number of the Subscribe call that
\* client.Subscribe sent: the stream is the context of that call.
VARIABLES
    subscriptions,          \* self.subscriptions: insertion-ordered <<topic, stream>> items
    messages,               \* self.messages: the local buffer
    consumer_lock,          \* self.lock of the Consumer: "free" or "main"
    receive,                \* thread -> position of the receive thread
    holds,                  \* thread -> the stream it passed to next()
    msg,                    \* thread -> the message that next() gave it (<<>> = none)
    taken,                  \* stream -> number of its messages that next() has returned
    main                    \* the thread that calls the Consumer's methods: position,
                            \* topic of the running unsubscribe, the RPC it waits for

brokerVars == <<calls, pc, queue, subscribers, topic_subscribers_mutex, lock, stream, server,
                sent,
                iter, broker_subscribers, result, snap, attempts, lastEvent, before>>

consumerVars == <<subscriptions, messages, consumer_lock, receive, holds, msg, taken,
                  main>>

vars == <<brokerVars, consumerVars>>

Calls == DOMAIN calls
\* key = (request.topic, request.subscriber_id)
Keys == Topics \X Ids

NoRequest == [kind |-> "none", topic |-> "none", id |-> 0, message |-> "none"]

\* The requests a client can send: pb.SubscriberRequest, pb.UnsubscribeRequest,
\* pb.PublishRequest.
Requests ==
    [kind : {"subscribe", "unsubscribe"}, topic : Topics, id : Ids, message : {"none"}]
    \cup [kind : {"publish"}, topic : Topics, id : {0}, message : Msgs]

(***************************************************************************)
(* Python dictionaries: self.subscribers[topic] keeps its items in         *)
(* insertion order; assigning to a present key keeps the key's position.   *)
(***************************************************************************)
\* self.subscribers.get(topic, {}).items()
Items(subs, t) == IF t \in DOMAIN subs THEN subs[t] ELSE <<>>

HasId(items, i) == \E n \in 1..Len(items) : items[n].id = i

\* d[i] = ctx
PutItem(items, i, ctx) ==
    IF HasId(items, i)
    THEN [n \in 1..Len(items) |->
            IF items[n].id = i THEN [id |-> i, ctx |-> ctx] ELSE items[n]]
    ELSE Append(items, [id |-> i, ctx |-> ctx])

\* del d[i]
DelItem(items, i) ==
    LET keep == {n \in 1..Len(items) : items[n].id # i}
        F[n \in 0..Len(items)] ==
            IF n = 0 THEN <<>>
            ELSE IF n \in keep THEN Append(F[n - 1], items[n]) ELSE F[n - 1]
    IN F[Len(items)]

\* The (topic, id) pairs present in self.subscribers.
Registered(subs) ==
    UNION {{<<t, subs[t][n].id>> : n \in 1..Len(subs[t])} : t \in DOMAIN subs}

(***************************************************************************)
(* threading.RLock: free, or owned by one thread with a recursion count.   *)
(***************************************************************************)
\* Mutant: a plain Lock, which its owner cannot take a second time.
CanAcquire_NotReentrant(l, c) == l.owner = NoCall

\* Mutant: the lock excludes nobody.
CanAcquire_NoExclusion(l, c) == TRUE

\* Mutant: taking the lock does not make the thread its owner.
Acquire_NoOwner(l, c) == [owner |-> NoCall, count |-> l.count + 1]

\* threading.RLock acquire and release
CanAcquire(l, c) == l.owner = NoCall \/ l.owner = c
Acquire(l, c) == [owner |-> c, count |-> l.count + 1]
Release(l) ==
    IF l.count = 1 THEN [owner |-> NoCall, count |-> 0]
    ELSE [owner |-> l.owner, count |-> l.count - 1]

(***************************************************************************)
(* The context of a call: context.is_active() and context.send(message).   *)
(* The handlers take whatever context the server passes them.  A context   *)
(* that has a send method is "active" until its stream ends; a write to it *)
(* succeeds while it is active, raises grpc.RpcError once the peer has     *)
(* closed it ("closed"), and raises an exception of another class in state *)
(* "fault".  A context as grpc declares it (grpc.ServicerContext) has no   *)
(* send method: it is "no_send" while its stream is active, and every      *)
(* write to it raises AttributeError, before and after its stream ends     *)
(* ("fault").  The contexts of one run are all of the same kind.           *)
(***************************************************************************)
ContextKinds == {"active", "no_send"}

\* Mutant: the poll takes an active stream for an ended one.
is_active_Negated(st) == st \notin {"active", "no_send"}

\* context.is_active()
is_active(st) == st \in {"active", "no_send"}

\* subscriber_context.send(...): "error" is an exception that is not a
\* grpc.RpcError, AttributeError included.
SendOutcome(st) ==
    CASE st = "active" -> "ok"
      [] st = "closed" -> "rpc_error"
      [] OTHER -> "error"

\* except grpc.RpcError
Caught(outcome) == outcome = "rpc_error"

\* Consumer.__init__, with n the number of calls of the run.
ConsumerInit(n) ==
    /\ subscriptions = <<>>
    /\ messages = <<>>
    /\ consumer_lock = "free"
    /\ receive = [c \in 1..n |-> "none"]
    /\ holds = [c \in 1..n |-> NoCall]
    /\ msg = [c \in 1..n |-> <<>>]
    /\ taken = [c \in 1..n |-> 0]
    /\ main = [at |-> "idle", topic |-> "none", call |-> NoCall]

\* Broker.__init__: the maps are empty, the lock is free and the server is
\* created, not started.
Init ==
    /\ calls = [c \in 1..MaxCalls |-> NoRequest]
    /\ pc = [c \in 1..MaxCalls |-> "idle"]
    /\ queue = <<>>
    /\ server = "created"
    /\ subscribers = <<>>
    /\ topic_subscribers_mutex = <<>>
    /\ lock = [owner |-> NoCall, count |-> 0]
    /\ \E kind \in ContextKinds : stream = [c \in 1..MaxCalls |-> kind]
    /\ sent = [c \in 1..MaxCalls |-> <<>>]
    /\ iter = [c \in 1..MaxCalls |-> 0]
    /\ broker_subscribers = [c \in 1..MaxCalls |-> <<>>]
    /\ result = [c \in 1..MaxCalls |-> "none"]
    /\ snap = [c \in 1..MaxCalls |-> <<>>]
    /\ attempts = [c \in 1..MaxCalls |-> <<>>]
    /\ lastEvent = [k \in Keys |-> "none"]
    /\ before = [c \in 1..MaxCalls |-> "none"]
    /\ ConsumerInit(MaxCalls)

(***************************************************************************)
(* The gRPC server: a call is submitted to the executor's work queue; an   *)
(* idle worker of the pool takes the oldest queued call and runs its       *)
(* handler to the end.                                                     *)
(***************************************************************************)
\* The server accepts calls: Broker.start has started it and Broker.stop has
\* not stopped it.  A call sent at another time reaches no handler.
serving == server = "started"

\* The calls that occupy a worker thread.
Busy == {c \in Calls : pc[c] \notin {"idle", "queued", "done", "refused"}}

\* The clients send their requests before the pool starts the first of them:
\* a request in the queue is not seen by the broker, so a call sent later is a
\* call that waits longer in the queue.  Topics and identities are opaque
\* to the broker, so the first request names the first topic and identity.
Issue(c) ==
    /\ serving
    /\ pc[c] = "idle"
    /\ IF c = 1 THEN TRUE ELSE pc[c - 1] # "idle"
    /\ \A d \in Calls : pc[d] \in {"idle", "queued"}
    /\ \E req \in Requests :
          /\ c = 1 => (req.topic = "news" /\ req.id \in {0, 1})
          /\ calls' = [calls EXCEPT ![c] = req]
    /\ pc' = [pc EXCEPT ![c] = "queued"]
    /\ queue' = Append(queue, c)
    /\ UNCHANGED <<consumerVars, server, subscribers, topic_subscribers_mutex, lock, stream,
                   sent, iter,
                   broker_subscribers, result, snap, attempts, lastEvent, before>>

Dispatch ==
    /\ queue # <<>>
    /\ Cardinality(Busy) < max_workers
    /\ pc' = [pc EXCEPT ![Head(queue)] = "start"]
    /\ queue' = Tail(queue)
    /\ UNCHANGED <<consumerVars, server, calls, subscribers, topic_subscribers_mutex, lock, stream, sent, iter,
                   broker_subscribers, result, snap, attempts, lastEvent, before>>

\* What an active stream becomes when it ends: a write to it then raises
\* grpc.RpcError ("closed") or another exception ("fault"); a context that has
\* no send method keeps raising AttributeError.
Ended(st) == IF st = "no_send" THEN {"fault"} ELSE {"closed", "fault"}

\* The peer of a subscribe call goes away, or its stream breaks: from then on
\* context.is_active() is false and a write raises.  A stream can end at any
\* time after the client has sent the call: while the call waits in the
\* queue, before its handler has registered, or while the handler polls.  A
\* stream that ends before line 36 is registered ended.
StreamEnd(c) ==
    /\ calls[c].kind = "subscribe"
    /\ pc[c] \in {"queued", "start", "poll"}
    /\ is_active(stream[c])
    /\ \E st \in Ended(stream[c]) : stream' = [stream EXCEPT ![c] = st]
    /\ UNCHANGED <<consumerVars, server, calls, pc, queue, subscribers,
                   topic_subscribers_mutex, lock, sent, iter, broker_subscribers, result,
                   snap, attempts, lastEvent, before>>

\* Broker.start: add_insecure_port and self.server.start(): from now on the
\* server accepts calls.  The sleep loop that follows writes nothing; its
\* KeyboardInterrupt branch is a call of stop.
start ==
    /\ server = "created"
    /\ server' = "started"
    /\ UNCHANGED <<consumerVars, calls, pc, queue, subscribers, topic_subscribers_mutex, lock,
                   stream, sent, iter, broker_subscribers, result, snap, attempts, lastEvent,
                   before>>

\* Broker.stop: self.server.stop(0).  The server accepts no further call and
\* ends the streams of all the calls it has, queued and running ones alike.
\* The handlers that run, and those still in the queue of the pool, go on to
\* their end with a context that is no longer active.
stop ==
    /\ server # "stopped"
    /\ server' = "stopped"
    /\ \E f \in [Calls -> {"active", "no_send", "closed", "fault"}] :
          /\ \A c \in Calls :
                IF /\ calls[c].kind = "subscribe"
                   /\ pc[c] \in {"queued", "start", "poll"}
                   /\ is_active(stream[c])
                THEN f[c] \in Ended(stream[c])
                ELSE f[c] = stream[c]
          /\ stream' = f
    /\ UNCHANGED <<consumerVars, calls, pc, queue, subscribers, topic_subscribers_mutex, lock,
                   sent, iter, broker_subscribers, result, snap, attempts, lastEvent, before>>

(***************************************************************************)
(* Broker.subscribe                                                        *)
(***************************************************************************)
\* Mutant: subscribe registers the context and creates no delivery lock.
SubscribeMutex_NoLock(m, t, i) == m

\* self.topic_subscribers_mutex[key] = threading.Lock()
SubscribeMutex(m, t, i) ==
    [k \in DOMAIN m \cup {<<t, i>>} |-> IF k = <<t, i>> THEN NoCall ELSE m[k]]

\* with self.lock: register the context and a fresh Lock for the key.
SubscribeRegister(c) ==
    LET t == calls[c].topic
        i == calls[c].id
    IN  /\ calls[c].kind = "subscribe"
        /\ pc[c] = "start"
        /\ lock.owner = NoCall
        /\ subscribers' =
              [x \in DOMAIN subscribers \cup {t} |->
                  IF x = t THEN PutItem(Items(subscribers, t), i, c) ELSE subscribers[x]]
        /\ topic_subscribers_mutex' = SubscribeMutex(topic_subscribers_mutex, t, i)
        /\ lastEvent' = [lastEvent EXCEPT ![<<t, i>>] = "subscribed"]
        /\ pc' = [pc EXCEPT ![c] = "poll"]
        /\ UNCHANGED <<consumerVars, server, calls, queue, lock, stream, sent, iter, broker_subscribers,
                       result, snap, attempts, before>>

\* while True: if context.is_active(): time.sleep(1) else: break
SubscribePoll(c) ==
    /\ calls[c].kind = "subscribe"
    /\ pc[c] = "poll"
    /\ ~is_active(stream[c])
    /\ pc' = [pc EXCEPT ![c] = "done"]
    /\ result' = [result EXCEPT ![c] = "returned"]
    /\ UNCHANGED <<consumerVars, server, calls, queue, subscribers, topic_subscribers_mutex, lock, stream,
                   sent, iter, broker_subscribers, snap, attempts, lastEvent, before>>

(***************************************************************************)
(* Broker.unsubscribe                                                      *)
(***************************************************************************)
\* Mutant: the test of line 48 looks at the topic alone.
NotFound_TopicOnly(subs, t, i) == t \notin DOMAIN subs

\* Mutant: del self.topic_subscribers_mutex[key] is forgotten.
UnsubscribeMutex_KeepsLock(subs, m, t, i) == m

\* Mutant: success=True whatever the test found.
UnsubscribeResult_AlwaysTrue(subs, t, i) == "true"

\* Mutant: the whole topic is emptied instead of the one entry.
UnsubscribeSubs_WholeTopic(subs, t, i) ==
    IF t \notin DOMAIN subs \/ ~HasId(subs[t], i) THEN subs
    ELSE [subs EXCEPT ![t] = <<>>]

\* request.topic not in self.subscribers or request.subscriber_id not in self.subscribers[topic]
NotFound(subs, t, i) == t \notin DOMAIN subs \/ ~HasId(subs[t], i)

UnsubscribeSubs(subs, t, i) ==
    IF NotFound(subs, t, i) THEN subs
    ELSE [subs EXCEPT ![t] = DelItem(subs[t], i)]

UnsubscribeMutex(subs, m, t, i) ==
    IF NotFound(subs, t, i) THEN m
    ELSE [k \in DOMAIN m \ {<<t, i>>} |-> m[k]]

UnsubscribeResult(subs, t, i) == IF NotFound(subs, t, i) THEN "false" ELSE "true"

Unsubscribe(c) ==
    LET t == calls[c].topic
        i == calls[c].id
    IN  /\ calls[c].kind = "unsubscribe"
        /\ pc[c] = "start"
        /\ lock.owner = NoCall
        /\ subscribers' = UnsubscribeSubs(subscribers, t, i)
        /\ topic_subscribers_mutex' =
              UnsubscribeMutex(subscribers, topic_subscribers_mutex, t, i)
        /\ result' = [result EXCEPT ![c] = UnsubscribeResult(subscribers, t, i)]
        /\ lastEvent' =
              IF NotFound(subscribers, t, i) THEN lastEvent
              ELSE [lastEvent EXCEPT ![<<t, i>>] = "unsubscribed"]
        /\ before' = [before EXCEPT ![c] = lastEvent[<<t, i>>]]
        /\ pc' = [pc EXCEPT ![c] = "done"]
        /\ UNCHANGED <<consumerVars, server, calls, queue, lock, stream, sent, iter, broker_subscribers,
                       snap, attempts>>

(***************************************************************************)
(* Broker.publish and Broker.remove_broken_subscribers                     *)
(***************************************************************************)
\* with self.lock: broker_subscribers = []
PublishEnter(c) ==
    /\ calls[c].kind = "publish"
    /\ pc[c] = "start"
    /\ CanAcquire(lock, c)
    /\ lock' = Acquire(lock, c)
    /\ iter' = [iter EXCEPT ![c] = 1]
    /\ broker_subscribers' = [broker_subscribers EXCEPT ![c] = <<>>]
    /\ snap' = [snap EXCEPT ![c] =
                  [n \in 1..Len(Items(subscribers, calls[c].topic)) |->
                      [id |-> Items(subscribers, calls[c].topic)[n].id,
                       ctx |-> Items(subscribers, calls[c].topic)[n].ctx,
                       alive |-> is_active(stream[Items(subscribers, calls[c].topic)[n].ctx])]]]
    /\ pc' = [pc EXCEPT ![c] = "iter"]
    /\ UNCHANGED <<consumerVars, server, calls, queue, subscribers, topic_subscribers_mutex, stream, sent,
                   result, attempts, lastEvent, before>>

\* The item the iteration of publish stands at.
Current(c) == Items(subscribers, calls[c].topic)[iter[c]]

\* self.topic_subscribers_mutex[key].acquire()
PublishAcquire(c) ==
    LET key == <<calls[c].topic, Current(c).id>>
    IN  /\ calls[c].kind = "publish"
        /\ pc[c] = "iter"
        /\ iter[c] <= Len(Items(subscribers, calls[c].topic))
        /\ topic_subscribers_mutex[key] = NoCall
        /\ topic_subscribers_mutex' = [topic_subscribers_mutex EXCEPT ![key] = c]
        /\ pc' = [pc EXCEPT ![c] = "send"]
        /\ UNCHANGED <<consumerVars, server, calls, queue, subscribers, lock, stream, sent, iter,
                       broker_subscribers, result, snap, attempts, lastEvent, before>>

\* try: subscriber_context.send(...) except grpc.RpcError: append(key)
\* finally: release. An exception that is not caught leaves the handler
\* through the with block, which releases self.lock.
PublishSend(c) ==
    LET t == calls[c].topic
        item == Current(c)
        key == <<t, item.id>>
        outcome == SendOutcome(stream[item.ctx])
    IN  /\ calls[c].kind = "publish"
        /\ pc[c] = "send"
        /\ sent' = IF outcome = "ok"
                   THEN [sent EXCEPT ![item.ctx] =
                           Append(@, [topic |-> t, message |-> calls[c].message, by |-> c])]
                   ELSE sent
        /\ broker_subscribers' =
              IF Caught(outcome)
              THEN [broker_subscribers EXCEPT ![c] = Append(@, key)]
              ELSE broker_subscribers
        /\ topic_subscribers_mutex' = [topic_subscribers_mutex EXCEPT ![key] = NoCall]
        /\ attempts' = [attempts EXCEPT ![c] =
                          Append(@, [id |-> item.id, ctx |-> item.ctx, outcome |-> outcome,
                                     alive |-> is_active(stream[item.ctx])])]
        /\ IF outcome = "ok" \/ Caught(outcome)
           THEN /\ iter' = [iter EXCEPT ![c] = @ + 1]
                /\ pc' = [pc EXCEPT ![c] = "iter"]
                /\ UNCHANGED <<lock, result>>
           ELSE /\ lock' = Release(lock)
                /\ pc' = [pc EXCEPT ![c] = "done"]
                /\ result' = [result EXCEPT ![c] = "raised"]
                /\ UNCHANGED iter
        /\ UNCHANGED <<consumerVars, server, calls, queue, subscribers, stream, snap, lastEvent, before>>

InKeys(keys, k) == \E n \in 1..Len(keys) : keys[n] = k

\* Mutant: the entry is deleted by subscriber id under every topic.
RemoveBrokenSubs_AnyTopic(subs, keys) ==
    [t \in DOMAIN subs |->
        LET items == subs[t]
            F[n \in 0..Len(items)] ==
                IF n = 0 THEN <<>>
                ELSE IF \E j \in 1..Len(keys) : keys[j][2] = items[n].id THEN F[n - 1]
                     ELSE Append(F[n - 1], items[n])
        IN F[Len(items)]]

\* Mutant: the cleanup also drops the topics left without a subscriber.
RemoveBrokenSubs_DropsEmptyTopics(subs, keys) ==
    LET kept == [t \in DOMAIN subs |->
                    LET items == subs[t]
                        F[n \in 0..Len(items)] ==
                            IF n = 0 THEN <<>>
                            ELSE IF InKeys(keys, <<t, items[n].id>>) THEN F[n - 1]
                                 ELSE Append(F[n - 1], items[n])
                    IN F[Len(items)]]
    IN  [t \in {x \in DOMAIN subs : kept[x] # <<>>} |-> kept[t]]

\* Mutant: del self.topic_subscribers_mutex[key] is forgotten.
RemoveBrokenMutex_KeepsLocks(m, keys) == m

\* self.subscribers once `del self.subscribers[key[0]][key[1]]` has run for
\* each key of the list.
RemoveBrokenSubs(subs, keys) ==
    [t \in DOMAIN subs |->
        LET items == subs[t]
            F[n \in 0..Len(items)] ==
                IF n = 0 THEN <<>>
                ELSE IF InKeys(keys, <<t, items[n].id>>) THEN F[n - 1]
                     ELSE Append(F[n - 1], items[n])
        IN F[Len(items)]]

\* self.topic_subscribers_mutex once `del self.topic_subscribers_mutex[key]`
\* has run for each key of the list.
RemoveBrokenMutex(m, keys) ==
    [k \in {x \in DOMAIN m : ~InKeys(keys, x)} |-> m[k]]

\* The position in the list of the first key whose deletion raises KeyError:
\* a key that is in neither map, that an earlier position of the list has
\* deleted already, or that has no delivery lock; 0 when every deletion
\* succeeds.
KeyErrorAt(subs, m, keys) ==
    LET bad == {n \in 1..Len(keys) :
                   \/ NotFound(subs, keys[n][1], keys[n][2])
                   \/ keys[n] \notin DOMAIN m
                   \/ \E j \in 1..(n - 1) : keys[j] = keys[n]}
    IN  IF bad = {} THEN 0 ELSE CHOOSE n \in bad : \A j \in bad : n <= j

\* The keys that line 77 has deleted from self.subscribers, and the keys that
\* line 78 has deleted from self.topic_subscribers_mutex, when the loop ends
\* or is left by the KeyError.
DeletedFromSubs(subs, m, keys) ==
    LET e == KeyErrorAt(subs, m, keys)
    IN  IF e = 0 THEN keys
        ELSE IF NotFound(subs, keys[e][1], keys[e][2])
                  \/ \E j \in 1..(e - 1) : keys[j] = keys[e]
             THEN SubSeq(keys, 1, e - 1)
             ELSE SubSeq(keys, 1, e)

DeletedFromMutex(subs, m, keys) ==
    LET e == KeyErrorAt(subs, m, keys)
    IN  IF e = 0 THEN keys ELSE SubSeq(keys, 1, e - 1)

\* if broker_subscribers: return success=False; return success=True
PublishResult(keys) == IF keys # <<>> THEN "false" ELSE "true"

\* self.remove_broken_subscribers(broker_subscribers) inside the with block
\* (the RLock is taken a second time and released), the end of the with
\* block, and the return, which reads only the handler's local list.  A
\* KeyError of the cleanup would leave the handler without a result.
PublishFinish(c) ==
    LET keys == broker_subscribers[c]
    IN  /\ calls[c].kind = "publish"
        /\ pc[c] = "iter"
        /\ iter[c] > Len(Items(subscribers, calls[c].topic))
        /\ CanAcquire(lock, c)
        /\ subscribers' =
              RemoveBrokenSubs(subscribers,
                  DeletedFromSubs(subscribers, topic_subscribers_mutex, keys))
        /\ topic_subscribers_mutex' =
              RemoveBrokenMutex(topic_subscribers_mutex,
                  DeletedFromMutex(subscribers, topic_subscribers_mutex, keys))
        /\ lock' = Release(Release(Acquire(lock, c)))
        /\ lastEvent' =
              [k \in DOMAIN lastEvent |->
                  IF InKeys(DeletedFromSubs(subscribers, topic_subscribers_mutex, keys), k)
                  THEN "evicted" ELSE lastEvent[k]]
        /\ result' = [result EXCEPT ![c] =
                         IF KeyErrorAt(subscribers, topic_subscribers_mutex, keys) # 0
                         THEN "raised" ELSE PublishResult(keys)]
        /\ pc' = [pc EXCEPT ![c] = "done"]
        /\ UNCHANGED <<consumerVars, server, calls, queue, stream, sent, iter, broker_subscribers, snap,
                       attempts, before>>

Next ==
    \/ \E c \in Calls : Issue(c)
    \/ start
    \/ Dispatch
    \/ \E c \in Calls : StreamEnd(c)
    \/ stop
    \/ \E c \in Calls : SubscribeRegister(c)
    \/ \E c \in Calls : SubscribePoll(c)
    \/ \E c \in Calls : Unsubscribe(c)
    \/ \E c \in Calls : PublishEnter(c)
    \/ \E c \in Calls : PublishAcquire(c)
    \/ \E c \in Calls : PublishSend(c)
    \/ \E c \in Calls : PublishFinish(c)

Spec == Init /\ [][Next]_vars

(***************************************************************************)
(* The pool scenario: one call more than the pool has workers, sent one    *)
(* after the other by clients whose streams stay open.  Each call is a     *)
(* Subscribe of "news" under an identity of its own or a Publish to        *)
(* "news"; the last one may also be an Unsubscribe.  The handlers are      *)
(* those of Spec.                                                          *)
(***************************************************************************)
PoolCalls == max_workers + 1

\* Each Subscribe of the scenario has a subscriber identity of its own.
PoolIds == 1..max_workers

PoolRequests(c) ==
    [kind : {"subscribe"}, topic : {"news"}, id : {c} \cap PoolIds, message : {"none"}]
    \cup [kind : {"publish"}, topic : {"news"}, id : {0}, message : Msgs]
    \cup [kind : {"unsubscribe"}, topic : {"news"},
           id : IF c > max_workers THEN {1} ELSE {}, message : {"none"}]

PoolInit ==
    /\ calls = [c \in 1..PoolCalls |-> NoRequest]
    /\ pc = [c \in 1..PoolCalls |-> "idle"]
    /\ queue = <<>>
    /\ server = "created"
    /\ subscribers = <<>>
    /\ topic_subscribers_mutex = <<>>
    /\ lock = [owner |-> NoCall, count |-> 0]
    /\ \E kind \in ContextKinds : stream = [c \in 1..PoolCalls |-> kind]
    /\ sent = [c \in 1..PoolCalls |-> <<>>]
    /\ iter = [c \in 1..PoolCalls |-> 0]
    /\ broker_subscribers = [c \in 1..PoolCalls |-> <<>>]
    /\ result = [c \in 1..PoolCalls |-> "none"]
    /\ snap = [c \in 1..PoolCalls |-> <<>>]
    /\ attempts = [c \in 1..PoolCalls |-> <<>>]
    /\ lastEvent = [k \in Topics \X PoolIds |-> "none"]
    /\ before = [c \in 1..PoolCalls |-> "none"]
    /\ ConsumerInit(PoolCalls)

\* A client sends call c once every earlier call has been answered or, for a
\* Subscribe, has registered and is polling.
PoolIssue(c) ==
    /\ serving
    /\ pc[c] = "idle"
    /\ \A d \in Calls : d < c => pc[d] \in {"poll", "done"}
    /\ \E req \in PoolRequests(c) : calls' = [calls EXCEPT ![c] = req]
    /\ pc' = [pc EXCEPT ![c] = "queued"]
    /\ queue' = Append(queue, c)
    /\ UNCHANGED <<consumerVars, server, subscribers, topic_subscribers_mutex, lock, stream,
                   sent, iter,
                   broker_subscribers, result, snap, attempts, lastEvent, before>>

PoolNext ==
    \/ \E c \in Calls : PoolIssue(c)
    \/ start
    \/ Dispatch
    \/ \E c \in Calls : SubscribeRegister(c)
    \/ \E c \in Calls : Unsubscribe(c)
    \/ \E c \in Calls : PublishEnter(c)
    \/ \E c \in Calls : PublishAcquire(c)
    \/ \E c \in Calls : PublishSend(c)
    \/ \E c \in Calls : PublishFinish(c)

PoolSpec == PoolInit /\ [][PoolNext]_vars

\* A step the broker can take by itself: a worker taking a queued call, or a
\* step of a running handler.
BrokerStep ==
    \/ Dispatch
    \/ \E c \in Calls :
          \/ SubscribeRegister(c)
          \/ SubscribePoll(c)
          \/ Unsubscribe(c)
          \/ PublishEnter(c)
          \/ PublishAcquire(c)
          \/ PublishSend(c)
          \/ PublishFinish(c)

(***************************************************************************)
(* Vocabulary of the properties                                            *)
(***************************************************************************)
\* The stream of call s has not ended.
StreamAlive(s) == stream[s] \in ContextKinds

IsPublish(c) == calls[c].kind = "publish"
IsUnsubscribe(c) == calls[c].kind = "unsubscribe"
IsSubscribe(c) == calls[c].kind = "subscribe"

\* The handler of publish call c has ended, with a result or with an exception.
PublishEnded(c) == IsPublish(c) /\ pc[c] = "done"

\* The step in which publish call c returns a result.
PublishReturns(c) ==
    IsPublish(c) /\ pc[c] = "iter" /\ pc'[c] = "done"

\* A step of the handler of publish call c.
PublishStep(c) ==
    IsPublish(c) /\ pc[c] \in {"start", "iter", "send"} /\ pc'[c] # pc[c]

\* The step in which unsubscribe call c runs.
UnsubscribeStep(c) ==
    IsUnsubscribe(c) /\ pc[c] = "start" /\ pc'[c] = "done"

\* The number of messages {topic, message} that publish call c wrote to stream s.
Delivered(c, s) ==
    Cardinality({n \in 1..Len(sent[s]) :
        sent[s][n] = [topic |-> calls[c].topic, message |-> calls[c].message, by |-> c]})

Failed(c) == {n \in 1..Len(attempts[c]) : attempts[c][n].outcome # "ok"}

(***************************************************************************)
(* C1 (fan-out completeness): when a publish has ended, every subscriber   *)
(* of its topic that was registered and alive when the publish took the    *)
(* coarse lock, and whose stream is alive still, has been written the      *)
(* message exactly once by this publish; and when all of them are alive    *)
(* the publish has returned true.                                          *)
(***************************************************************************)
C1_FanOutComplete ==
    \A c \in Calls :
        PublishEnded(c) =>
            /\ \A n \in 1..Len(snap[c]) :
                  (snap[c][n].alive /\ is_active(stream[snap[c][n].ctx]))
                      => Delivered(c, snap[c][n].ctx) = 1
            /\ (\A n \in 1..Len(snap[c]) : is_active(stream[snap[c][n].ctx]))
                  => result[c] = "true"

(***************************************************************************)
(* C2 (failure isolation): when a publish has ended, every subscriber of   *)
(* the iterated set has had its write attempt, in the order of iteration,  *)
(* and the publisher has got a boolean and nothing else.                   *)
(***************************************************************************)
C2_FailureIsolation ==
    \A c \in Calls :
        PublishEnded(c) =>
            /\ Len(attempts[c]) = Len(snap[c])
            /\ \A n \in 1..Len(snap[c]) : attempts[c][n].ctx = snap[c][n].ctx
            /\ result[c] \in {"true", "false"}

(***************************************************************************)
(* C3 (eviction of broken subscribers): in the step in which a publish     *)
(* returns, every (topic, id) whose write failed in its pass is absent     *)
(* from the subscriber map and from the delivery-lock map, an Unsubscribe  *)
(* of the pair would answer false, and every entry whose write succeeded   *)
(* is still present with its stream and its lock.                          *)
(***************************************************************************)
C3_EvictionOnReturn ==
    [][\A c \in Calls :
        PublishReturns(c) =>
            \A n \in 1..Len(attempts[c]) :
                LET t == calls[c].topic
                    a == attempts[c][n]
                IN  IF a.outcome # "ok"
                    THEN /\ <<t, a.id>> \notin Registered(subscribers')
                         /\ <<t, a.id>> \notin DOMAIN topic_subscribers_mutex'
                         /\ UnsubscribeResult(subscribers', t, a.id) = "false"
                    ELSE /\ \E m \in 1..Len(Items(subscribers', t)) :
                               Items(subscribers', t)[m] = [id |-> a.id, ctx |-> a.ctx]
                         /\ <<t, a.id>> \in DOMAIN topic_subscribers_mutex'
      ]_vars

\* A publish has returned false after a pass in which one write failed and
\* another succeeded, and the broken pair is gone.
C3_Witness ==
    \E c \in Calls :
        /\ PublishEnded(c)
        /\ result[c] = "false"
        /\ \E n, m \in 1..Len(attempts[c]) :
              /\ attempts[c][n].outcome = "rpc_error"
              /\ attempts[c][m].outcome = "ok"
              /\ <<calls[c].topic, attempts[c][n].id>> \notin Registered(subscribers)
              /\ <<calls[c].topic, attempts[c][m].id>> \in Registered(subscribers)

(***************************************************************************)
(* C4 (aggregate publish result): a publish that has ended has answered    *)
(* false if at least one write of its own pass failed, and true otherwise. *)
(***************************************************************************)
C4_AggregateResult ==
    \A c \in Calls :
        PublishEnded(c) =>
            result[c] = (IF Failed(c) # {} THEN "false" ELSE "true")

(***************************************************************************)
(* C5 (registry/lock consistency): whenever no thread holds the coarse     *)
(* lock, the keys of the delivery-lock map are the (topic, id) pairs of    *)
(* the subscriber map.                                                     *)
(***************************************************************************)
C5_RegistryLockConsistency ==
    lock.owner = NoCall =>
        DOMAIN topic_subscribers_mutex = Registered(subscribers)

\* The coarse lock is free, a pair is registered and another pair has been
\* removed by an Unsubscribe or by an eviction.
C5_Witness ==
    /\ lock.owner = NoCall
    /\ Registered(subscribers) # {}
    /\ \E k \in DOMAIN lastEvent : lastEvent[k] \in {"unsubscribed", "evicted"}
    /\ \E k \in DOMAIN lastEvent : lastEvent[k] = "subscribed"

(***************************************************************************)
(* C6 (no cross-topic leakage): a step of Publish(T1, m) writes only to    *)
(* streams registered under T1 and leaves the items, the topic slot and    *)
(* the delivery locks of every other topic as they are.                    *)
(***************************************************************************)
C6_NoCrossTopic ==
    [][\A c \in Calls :
        PublishStep(c) =>
            /\ \A s \in Calls :
                  sent'[s] # sent[s] =>
                      /\ calls[s].topic = calls[c].topic
                      /\ \E n \in 1..Len(Items(subscribers, calls[c].topic)) :
                            Items(subscribers, calls[c].topic)[n].ctx = s
            /\ \A t \in Topics \ {calls[c].topic} :
                  /\ (t \in DOMAIN subscribers') = (t \in DOMAIN subscribers)
                  /\ Items(subscribers', t) = Items(subscribers, t)
            /\ \A k \in DOMAIN topic_subscribers_mutex \cup DOMAIN topic_subscribers_mutex' :
                  k[1] # calls[c].topic =>
                      /\ (k \in DOMAIN topic_subscribers_mutex')
                            = (k \in DOMAIN topic_subscribers_mutex)
                      /\ k \in DOMAIN topic_subscribers_mutex =>
                            topic_subscribers_mutex'[k] = topic_subscribers_mutex[k]
      ]_vars

\* A publish has evicted a broken subscriber of its topic while a subscriber
\* of another topic stays registered and has been written nothing.
C6_Witness ==
    \E c, s \in Calls :
        /\ PublishEnded(c)
        /\ Failed(c) # {}
        /\ result[c] = "false"
        /\ IsSubscribe(s)
        /\ calls[s].topic # calls[c].topic
        /\ <<calls[s].topic, calls[s].id>> \in Registered(subscribers)
        /\ sent[s] = <<>>

(***************************************************************************)
(* C7 (idempotent unsubscribe): an Unsubscribe of a pair whose last        *)
(* registry change was its Subscribe answers true and removes the pair; an *)
(* Unsubscribe of a pair whose last registry change was a successful       *)
(* Unsubscribe answers false and leaves the registry as the first left it. *)
(***************************************************************************)
C7_IdempotentUnsubscribe ==
    [][\A c \in Calls :
        UnsubscribeStep(c) =>
            LET k == <<calls[c].topic, calls[c].id>>
            IN  /\ lastEvent[k] = "subscribed" =>
                      /\ result'[c] = "true"
                      /\ k \notin Registered(subscribers')
                      /\ k \notin DOMAIN topic_subscribers_mutex'
                /\ lastEvent[k] = "unsubscribed" =>
                      /\ result'[c] = "false"
                      /\ subscribers' = subscribers
                      /\ topic_subscribers_mutex' = topic_subscribers_mutex
      ]_vars

\* Two Unsubscribe calls of one pair have answered, the first true and the
\* second false, and no Subscribe or eviction of the pair came after the first.
C7_Witness ==
    \E c, d \in Calls :
        /\ IsUnsubscribe(c) /\ IsUnsubscribe(d)
        /\ calls[c].topic = calls[d].topic /\ calls[c].id = calls[d].id
        /\ result[c] = "true" /\ before[c] = "subscribed"
        /\ result[d] = "false" /\ before[d] = "unsubscribed"

(***************************************************************************)
(* C8 (unsubscribe of an unknown pair): an Unsubscribe of a pair that is   *)
(* not registered answers false and leaves both maps unchanged.            *)
(***************************************************************************)
C8_UnsubscribeUnknown ==
    [][\A c \in Calls :
        (UnsubscribeStep(c)
            /\ <<calls[c].topic, calls[c].id>> \notin Registered(subscribers)) =>
                /\ result'[c] = "false"
                /\ subscribers' = subscribers
                /\ topic_subscribers_mutex' = topic_subscribers_mutex
      ]_vars

\* An Unsubscribe of an unknown topic and an Unsubscribe of an unknown id of a
\* known topic have both answered false.
C8_Witness ==
    \E c, d \in Calls :
        /\ IsUnsubscribe(c) /\ IsUnsubscribe(d)
        /\ result[c] = "false" /\ result[d] = "false"
        /\ calls[c].topic \notin DOMAIN subscribers
        /\ calls[d].topic \in DOMAIN subscribers
        /\ before[c] = "none" /\ before[d] = "none"

(***************************************************************************)
(* C9 (publish to a topic with no subscriber): every step of a publish     *)
(* whose topic has no item changes neither map, creates no topic slot and  *)
(* writes to no stream, and the publish returns true.                      *)
(***************************************************************************)
C9_PublishNoSubscriber ==
    [][\A c \in Calls :
        (PublishStep(c) /\ Items(subscribers, calls[c].topic) = <<>>) =>
            /\ subscribers' = subscribers
            /\ topic_subscribers_mutex' = topic_subscribers_mutex
            /\ sent' = sent
            /\ pc'[c] = "done" => result'[c] = "true"
      ]_vars

\* A publish to a topic whose only subscriber had unsubscribed has returned
\* true.
C9_Witness ==
    \E c \in Calls :
        /\ PublishEnded(c)
        /\ snap[c] = <<>>
        /\ attempts[c] = <<>>
        /\ result[c] = "true"
        /\ calls[c].topic \in DOMAIN subscribers
        /\ \E i \in Ids : lastEvent[<<calls[c].topic, i>>] = "unsubscribed"

(***************************************************************************)
(* C10 (publish always answers): a Publish or Unsubscribe call that has    *)
(* been sent and not yet answered never waits on anything but the broker:  *)
(* a worker can take a queued call or a running handler can take a step,   *)
(* however many Subscribe calls are open; and its answer is true or false. *)
(***************************************************************************)
C10_PublishAlwaysAnswers ==
    \A c \in Calls :
        (IsPublish(c) \/ IsUnsubscribe(c)) =>
            /\ pc[c] \notin {"idle", "done"} => ENABLED BrokerStep
            /\ pc[c] = "done" => result[c] \in {"true", "false"}

(***************************************************************************)
(* The broker under fair scheduling of the polling threads: a Subscribe    *)
(* handler whose poll finds the stream inactive does leave its loop.       *)
(***************************************************************************)
FairSpec == Spec /\ \A c \in 1..MaxCalls : WF_vars(SubscribePoll(c))

(***************************************************************************)
(* C11 (Subscribe session lifetime): a Subscribe call has never returned   *)
(* while its stream is active, whatever happened to its registry entry;    *)
(* and, under fair scheduling of the polling thread, a Subscribe call that *)
(* polls a stream that is no longer active eventually returns.             *)
(***************************************************************************)
C11_SubscribeLifetime ==
    /\ [](\A c \in Calls :
            (IsSubscribe(c) /\ pc[c] = "done") => ~StreamAlive(c))
    /\ \A c \in 1..MaxCalls :
          (IsSubscribe(c) /\ pc[c] = "poll" /\ ~StreamAlive(c))
              ~> (pc[c] = "done" /\ result[c] = "returned")

\* A Subscribe call still polls its active stream although its entry has been
\* removed by an Unsubscribe, and another Subscribe call has returned after
\* its stream ended.
C11_Witness ==
    \E c, d \in Calls :
        /\ IsSubscribe(c) /\ pc[c] = "poll" /\ StreamAlive(c)
        /\ lastEvent[<<calls[c].topic, calls[c].id>>] = "unsubscribed"
        /\ <<calls[c].topic, calls[c].id>> \notin Registered(subscribers)
        /\ IsSubscribe(d) /\ pc[d] = "done" /\ ~StreamAlive(d)
        /\ result[d] = "returned"

(***************************************************************************)
(* C12 (entry lifetime bounded by stream liveness), as stated: in no       *)
(* reachable state does the registry hold an entry whose stream is no      *)
(* longer alive, and every registered pair has its delivery lock.          *)
(***************************************************************************)
C12_EntryAliveAlways ==
    /\ \A t \in DOMAIN subscribers :
          \A n \in 1..Len(subscribers[t]) : StreamAlive(subscribers[t][n].ctx)
    /\ Registered(subscribers) \subseteq DOMAIN topic_subscribers_mutex

\* The step in which subscribe call c registers its entry.
SubscribeRegisters(c) ==
    IsSubscribe(c) /\ pc[c] = "start" /\ pc'[c] = "poll"

\* The entries of the registry: <<topic, id, stream>>.
Entries(subs) ==
    UNION {{<<t, subs[t][n].id, subs[t][n].ctx>> : n \in 1..Len(subs[t])} : t \in DOMAIN subs}

(***************************************************************************)
(* C12, amended: an entry may stay in the registry after its stream has    *)
(* ended: a step in which a stream ends changes neither the registry nor   *)
(* the lock map.  Every entry holds the stream of the Subscribe call that  *)
(* registered it, under that call's topic and identity.  And no entry is   *)
(* created without both a registry slot and a delivery lock: an entry      *)
(* appears only in the registration step of its Subscribe call, which      *)
(* leaves its pair in both maps with the lock free, and every registered   *)
(* pair has a delivery lock.                                               *)
(***************************************************************************)
C12_EntryLifetime ==
    [][/\ stream' # stream =>
            /\ subscribers' = subscribers
            /\ topic_subscribers_mutex' = topic_subscribers_mutex
       /\ \A e \in Entries(subscribers') :
            /\ IsSubscribe(e[3])
            /\ calls[e[3]].topic = e[1]
            /\ calls[e[3]].id = e[2]
            /\ pc'[e[3]] \in {"poll", "done"}
       /\ \A e \in Entries(subscribers') \ Entries(subscribers) :
            /\ SubscribeRegisters(e[3])
            /\ <<e[1], e[2]>> \in DOMAIN topic_subscribers_mutex'
            /\ topic_subscribers_mutex'[<<e[1], e[2]>>] = NoCall
       /\ \A c \in Calls :
            SubscribeRegisters(c) =>
                <<calls[c].topic, calls[c].id, c>> \in Entries(subscribers')
       /\ Registered(subscribers') \subseteq DOMAIN topic_subscribers_mutex'
      ]_vars

\* An entry is still in the registry, with its delivery lock, although its
\* stream has ended and the Subscribe call that registered it has returned.
C12_Witness ==
    \E e \in Entries(subscribers) :
        /\ ~StreamAlive(e[3])
        /\ pc[e[3]] = "done"
        /\ result[e[3]] = "returned"
        /\ <<e[1], e[2]>> \in DOMAIN topic_subscribers_mutex

(***************************************************************************)
(* The re-subscription scenario: one call more than in Spec, all on the    *)
(* topic "news": Subscribe calls of the two identities, each with a stream *)
(* of its own, and Publish calls.  The handlers are those of Spec.         *)
(***************************************************************************)
ResubCalls == MaxCalls + 1

ResubRequests ==
    [kind : {"subscribe"}, topic : {"news"}, id : Ids, message : {"none"}]
    \cup [kind : {"publish"}, topic : {"news"}, id : {0}, message : Msgs]

ResubInit ==
    /\ calls = [c \in 1..ResubCalls |-> NoRequest]
    /\ pc = [c \in 1..ResubCalls |-> "idle"]
    /\ queue = <<>>
    /\ server = "created"
    /\ subscribers = <<>>
    /\ topic_subscribers_mutex = <<>>
    /\ lock = [owner |-> NoCall, count |-> 0]
    /\ \E kind \in ContextKinds : stream = [c \in 1..ResubCalls |-> kind]
    /\ sent = [c \in 1..ResubCalls |-> <<>>]
    /\ iter = [c \in 1..ResubCalls |-> 0]
    /\ broker_subscribers = [c \in 1..ResubCalls |-> <<>>]
    /\ result = [c \in 1..ResubCalls |-> "none"]
    /\ snap = [c \in 1..ResubCalls |-> <<>>]
    /\ attempts = [c \in 1..ResubCalls |-> <<>>]
    /\ lastEvent = [k \in Keys |-> "none"]
    /\ before = [c \in 1..ResubCalls |-> "none"]
    /\ ConsumerInit(ResubCalls)

\* The clients send their calls one after the other, each once the call
\* before it has been answered or, for a Subscribe, has registered.
ResubIssue(c) ==
    /\ serving
    /\ pc[c] = "idle"
    /\ \A d \in Calls : d < c => pc[d] \in {"poll", "done"}
    /\ \E req \in ResubRequests : calls' = [calls EXCEPT ![c] = req]
    /\ pc' = [pc EXCEPT ![c] = "queued"]
    /\ queue' = Append(queue, c)
    /\ UNCHANGED <<consumerVars, server, subscribers, topic_subscribers_mutex, lock, stream,
                   sent, iter,
                   broker_subscribers, result, snap, attempts, lastEvent, before>>

ResubNext ==
    \/ \E c \in Calls : ResubIssue(c)
    \/ start
    \/ Dispatch
    \/ \E c \in Calls : StreamEnd(c)
    \/ stop
    \/ \E c \in Calls : SubscribeRegister(c)
    \/ \E c \in Calls : SubscribePoll(c)
    \/ \E c \in Calls : PublishEnter(c)
    \/ \E c \in Calls : PublishAcquire(c)
    \/ \E c \in Calls : PublishSend(c)
    \/ \E c \in Calls : PublishFinish(c)

ResubSpec == ResubInit /\ [][ResubNext]_vars

\* Subscribe call s has registered and another Subscribe call of its pair,
\* now replaced, had registered too.
Resubscribed(s) ==
    /\ IsSubscribe(s)
    /\ pc[s] \in {"poll", "done"}
    /\ \E o \in Calls \ {s} :
          /\ IsSubscribe(o)
          /\ calls[o].topic = calls[s].topic /\ calls[o].id = calls[s].id
          /\ pc[o] \in {"poll", "done"}

(***************************************************************************)
(* C13 (re-subscribe overwrites): a Subscribe of a pair that is registered *)
(* leaves exactly one entry of the pair, bound to the new stream, with a   *)
(* free delivery lock; a Publish that found the new entry when it took the *)
(* coarse lock, and has ended, has written its message exactly once to the *)
(* new stream if that stream was and is alive, and never to a stream the   *)
(* pair was bound to before; and the return of a Subscribe call changes    *)
(* neither map.                                                            *)
(***************************************************************************)
C13_ResubscribeOverwrites ==
    [][/\ \A c \in Calls :
            (SubscribeRegisters(c)
                /\ <<calls[c].topic, calls[c].id>> \in Registered(subscribers)) =>
                LET t == calls[c].topic
                    i == calls[c].id
                IN  /\ Len(Items(subscribers', t)) = Len(Items(subscribers, t))
                    /\ \A n \in 1..Len(Items(subscribers', t)) :
                          Items(subscribers', t)[n].id = i
                              <=> Items(subscribers', t)[n].ctx = c
                    /\ \E n \in 1..Len(Items(subscribers', t)) :
                          Items(subscribers', t)[n] = [id |-> i, ctx |-> c]
                    /\ topic_subscribers_mutex'[<<t, i>>] = NoCall
       /\ \A c \in Calls :
            (IsPublish(c) /\ pc'[c] = "done") =>
                \A n \in 1..Len(snap'[c]) :
                    LET s == snap'[c][n].ctx
                    IN  Resubscribed(s) =>
                          /\ (snap'[c][n].alive /\ stream'[s] \in ContextKinds)
                                => Cardinality({m \in 1..Len(sent'[s]) :
                                       sent'[s][m].by = c}) = 1
                          /\ \A o \in Calls \ {s} :
                                (IsSubscribe(o)
                                    /\ calls[o].topic = calls[s].topic
                                    /\ calls[o].id = calls[s].id)
                                  => \A m \in 1..Len(sent'[o]) : sent'[o][m].by # c
       /\ \A o \in Calls :
            (IsSubscribe(o) /\ pc[o] = "poll" /\ pc'[o] = "done") =>
                /\ subscribers' = subscribers
                /\ topic_subscribers_mutex' = topic_subscribers_mutex
      ]_vars

\* A step of the handler of call c that takes, holds or releases a lock.
LockStep(c) ==
    \/ SubscribeRegister(c)
    \/ Unsubscribe(c)
    \/ PublishEnter(c)
    \/ PublishAcquire(c)
    \/ PublishSend(c)
    \/ PublishFinish(c)

(***************************************************************************)
(* C14 (deadlock freedom): a delivery lock is held only by the thread that *)
(* holds the coarse lock; the thread that holds the coarse lock can always *)
(* take its next step, the re-acquisition of the coarse lock in the        *)
(* cleanup included; and when the coarse lock is free every handler that   *)
(* waits for it can take it.  So no set of broker threads waits on each    *)
(* other's locks.                                                          *)
(***************************************************************************)
C14_DeadlockFree ==
    /\ \A k \in DOMAIN topic_subscribers_mutex :
          topic_subscribers_mutex[k] # NoCall =>
              topic_subscribers_mutex[k] = lock.owner
    /\ \A c \in Calls :
          /\ lock.owner = c => (pc[c] \in {"iter", "send"} /\ ENABLED LockStep(c))
          /\ (lock.owner = NoCall /\ pc[c] = "start") => ENABLED LockStep(c)
          /\ pc[c] \in {"iter", "send"} => lock.owner = c

\* A Publish stands at the end of its pass with a failed write to evict,
\* holding the coarse lock it is about to take again in the cleanup, while
\* another handler waits for the coarse lock.
C14_Witness ==
    \E c, d \in Calls :
        /\ IsPublish(c) /\ pc[c] = "iter" /\ lock = [owner |-> c, count |-> 1]
        /\ iter[c] > Len(Items(subscribers, calls[c].topic))
        /\ broker_subscribers[c] # <<>>
        /\ pc[d] = "start"

\* Publish call c is inside its fan-out pass: it has taken the coarse lock and
\* has neither evicted and returned nor raised.
InPass(c) == IsPublish(c) /\ pc[c] \in {"iter", "send"}

(***************************************************************************)
(* C15 (publish serialization): while a Publish is inside its fan-out      *)
(* pass, from the taking of the coarse lock to its eviction step, no other *)
(* Publish is inside or enters a pass, and no step of another call writes  *)
(* to a stream or changes the subscriber map or the delivery-lock map.     *)
(***************************************************************************)
C15_PublishSerialized ==
    [][\A c \in Calls :
        InPass(c) =>
            /\ \A d \in Calls \ {c} :
                  /\ ~InPass(d)
                  /\ ~(IsPublish(d) /\ pc'[d] \in {"iter", "send"})
            /\ pc'[c] = pc[c] =>
                  /\ sent' = sent
                  /\ subscribers' = subscribers
                  /\ topic_subscribers_mutex' = topic_subscribers_mutex
      ]_vars

\* A Publish has made the first write of its pass while a second Publish to
\* the same topic waits for the coarse lock.
C15_Witness ==
    \E c, d \in Calls :
        /\ c # d
        /\ InPass(c) /\ attempts[c] # <<>>
        /\ IsPublish(d) /\ pc[d] = "start" /\ calls[d].topic = calls[c].topic

\* The streams registered under the topic of publish call c when it took the
\* coarse lock, and the streams its pass attempted to write to.
SnapStreams(c) == {snap[c][n].ctx : n \in 1..Len(snap[c])}
AttemptedStreams(c) == {attempts[c][n].ctx : n \in 1..Len(attempts[c])}

(***************************************************************************)
(* C16 (snapshot exactness): when a publish has ended, the streams its     *)
(* pass attempted to write to are exactly the streams registered under its *)
(* topic when it took the coarse lock, and its message went to no stream   *)
(* outside that set: not to a subscriber registered later, nor to one      *)
(* unsubscribed before.                                                    *)
(***************************************************************************)
C16_SnapshotExact ==
    \A c \in Calls :
        PublishEnded(c) =>
            /\ AttemptedStreams(c) = SnapStreams(c)
            /\ \A s \in Calls : Delivered(c, s) > 0 => s \in SnapStreams(c)

\* The step in which subscribe call c returns.
SubscribeReturns(c) ==
    IsSubscribe(c) /\ pc[c] = "poll" /\ pc'[c] = "done"

(***************************************************************************)
(* C17 (lazy eviction only): the return of a Subscribe call changes        *)
(* neither map; and a registered pair leaves the subscriber map or the     *)
(* delivery-lock map only in the step of an Unsubscribe of that pair or in *)
(* the returning step of a Publish to its topic whose write to it failed.  *)
(* So an entry whose stream is dead stays through the publishes to other   *)
(* topics and the subscribes and unsubscribes of other pairs.              *)
(***************************************************************************)
C17_LazyEvictionOnly ==
    [][/\ \A c \in Calls :
            SubscribeReturns(c) =>
                /\ subscribers' = subscribers
                /\ topic_subscribers_mutex' = topic_subscribers_mutex
       /\ \A k \in (Registered(subscribers) \ Registered(subscribers'))
                      \cup (DOMAIN topic_subscribers_mutex
                               \ DOMAIN topic_subscribers_mutex') :
            \/ \E c \in Calls :
                  /\ UnsubscribeStep(c)
                  /\ calls[c].topic = k[1] /\ calls[c].id = k[2]
            \/ \E c \in Calls :
                  /\ PublishReturns(c)
                  /\ calls[c].topic = k[1]
                  /\ \E n \in Failed(c) : attempts[c][n].id = k[2]
      ]_vars

\* A Subscribe call has returned after its stream ended and its entry is
\* still registered, in a run in which a Publish to another topic and an
\* Unsubscribe of another pair have been answered.
C17_Witness ==
    \E s, p, u \in Calls :
        /\ IsSubscribe(s) /\ pc[s] = "done" /\ ~StreamAlive(s)
        /\ \E n \in 1..Len(Items(subscribers, calls[s].topic)) :
              Items(subscribers, calls[s].topic)[n] = [id |-> calls[s].id, ctx |-> s]
        /\ PublishEnded(p) /\ calls[p].topic # calls[s].topic
        /\ IsUnsubscribe(u) /\ pc[u] = "done"
        /\ <<calls[u].topic, calls[u].id>> # <<calls[s].topic, calls[s].id>>

(***************************************************************************)
(* Broker.remove_broken_subscribers called by itself: the broker of Spec,  *)
(* on which a thread that is no handler calls the method with a list of up *)
(* to MaxKeys (topic, id) keys, which may or may not be registered.        *)
(***************************************************************************)
KeyLists == UNION {[1..n -> Keys] : n \in 0..MaxKeys}

\* with self.lock: for key in keys: del ...; del ...
\* The caller takes the next free slot c; the list is kept in
\* broker_subscribers[c] and the way the call ended in result[c].
remove_broken_subscribers(c, keys) ==
    /\ pc[c] = "idle"
    /\ IF c = 1 THEN TRUE ELSE pc[c - 1] # "idle"
    /\ CanAcquire(lock, c)
    /\ subscribers' =
          RemoveBrokenSubs(subscribers,
              DeletedFromSubs(subscribers, topic_subscribers_mutex, keys))
    /\ topic_subscribers_mutex' =
          RemoveBrokenMutex(topic_subscribers_mutex,
              DeletedFromMutex(subscribers, topic_subscribers_mutex, keys))
    /\ broker_subscribers' = [broker_subscribers EXCEPT ![c] = keys]
    /\ result' = [result EXCEPT ![c] =
                     IF KeyErrorAt(subscribers, topic_subscribers_mutex, keys) # 0
                     THEN "raised" ELSE "returned"]
    /\ lastEvent' =
          [k \in DOMAIN lastEvent |->
              IF InKeys(DeletedFromSubs(subscribers, topic_subscribers_mutex, keys), k)
              THEN "evicted" ELSE lastEvent[k]]
    /\ pc' = [pc EXCEPT ![c] = "done"]
    /\ UNCHANGED <<consumerVars, server, calls, queue, lock, stream, sent, iter, snap, attempts, before>>

EvictNext ==
    \/ \E c \in Calls : Issue(c)
    \/ start
    \/ Dispatch
    \/ \E c \in Calls : StreamEnd(c)
    \/ stop
    \/ \E c \in Calls : SubscribeRegister(c)
    \/ \E c \in Calls : SubscribePoll(c)
    \/ \E c \in Calls : Unsubscribe(c)
    \/ \E c \in Calls : PublishEnter(c)
    \/ \E c \in Calls : PublishAcquire(c)
    \/ \E c \in Calls : PublishSend(c)
    \/ \E c \in Calls : PublishFinish(c)
    \/ \E c \in Calls, keys \in KeyLists : remove_broken_subscribers(c, keys)

EvictSpec == Init /\ [][EvictNext]_vars

\* The step in which a direct call of remove_broken_subscribers runs.
EvictBrokenStep(c) ==
    calls[c] = NoRequest /\ pc[c] = "idle" /\ pc'[c] = "done"

(***************************************************************************)
(* C18 (EvictBroken tolerates missing keys): a call of EvictBroken(keys)   *)
(* completes without error; it leaves the subscriber map without the       *)
(* listed entries that were present and the delivery-lock map without      *)
(* their locks, skips the listed keys that were absent, and leaves every   *)
(* entry and lock that is not listed as it was.                            *)
(***************************************************************************)
C18_EvictToleratesMissing ==
    [][\A c \in Calls :
        EvictBrokenStep(c) =>
            LET keys == broker_subscribers'[c]
            IN  /\ result'[c] = "returned"
                /\ DOMAIN subscribers' = DOMAIN subscribers
                /\ \A t \in DOMAIN subscribers :
                      subscribers'[t] =
                          SelectSeq(subscribers[t],
                                    LAMBDA item : ~InKeys(keys, <<t, item.id>>))
                /\ DOMAIN topic_subscribers_mutex' =
                      {k \in DOMAIN topic_subscribers_mutex : ~InKeys(keys, k)}
                /\ \A k \in DOMAIN topic_subscribers_mutex' :
                      topic_subscribers_mutex'[k] = topic_subscribers_mutex[k]
      ]_vars

\* The keys whose delivery lock is held.
HeldLocks == {k \in DOMAIN topic_subscribers_mutex : topic_subscribers_mutex[k] # NoCall}

\* A publish stands before the acquire of the delivery lock of key k.
WaitsOn(c, k) ==
    /\ IsPublish(c) /\ pc[c] = "iter"
    /\ iter[c] <= Len(Items(subscribers, calls[c].topic))
    /\ k = <<calls[c].topic, Current(c).id>>

(***************************************************************************)
(* C19 (delivery-lock discipline): a delivery lock is held only by the     *)
(* thread that holds the coarse lock; at most one delivery lock is held at *)
(* a time; a step writes to a stream only while the delivery lock of the   *)
(* entry bound to that stream is held; and whenever a Subscribe overwrites *)
(* an entry, or an Unsubscribe or an eviction deletes one, the lock that   *)
(* is discarded is free and no thread stands before its acquire.           *)
(***************************************************************************)
C19_DeliveryLockDiscipline ==
    [][/\ \A k \in HeldLocks : topic_subscribers_mutex[k] = lock.owner
       /\ Cardinality(HeldLocks) <= 1
       /\ \A s \in Calls :
            sent'[s] # sent[s] =>
                \E k \in HeldLocks :
                    \E n \in 1..Len(Items(subscribers, k[1])) :
                        Items(subscribers, k[1])[n] = [id |-> k[2], ctx |-> s]
       /\ \A k \in DOMAIN topic_subscribers_mutex :
            (\/ k \notin DOMAIN topic_subscribers_mutex'
             \/ \E c \in Calls :
                   SubscribeRegisters(c) /\ k = <<calls[c].topic, calls[c].id>>) =>
                /\ topic_subscribers_mutex[k] = NoCall
                /\ \A p \in Calls : ~WaitsOn(p, k)
      ]_vars

\* A Publish holds the coarse lock and the delivery lock of an entry that a
\* second Subscribe of the pair has overwritten, and is about to write to its
\* stream; no other delivery lock is held.
C19_Witness ==
    \E c \in Calls :
        /\ IsPublish(c) /\ pc[c] = "send"
        /\ lock.owner = c
        /\ HeldLocks = {<<calls[c].topic, Current(c).id>>}
        /\ Resubscribed(Current(c).ctx)

(***************************************************************************)
(* The Consumer and the broker together: the thread of the application     *)
(* ("main") calls subscribe, unsubscribe and close of one Consumer; each   *)
(* subscribe sends a Subscribe call to the broker and starts a receive     *)
(* thread; a publisher sends up to MaxPublishes Publish calls.  The calls  *)
(* are served by the handlers of Spec.  The inbound stream of a Subscribe  *)
(* call is the context of that call: what the broker writes to it is what  *)
(* next() returns, in that order, and next() on a stream that has ended    *)
(* raises grpc.RpcError.                                                   *)
(***************************************************************************)
\* self.id = uuid.uuid4().int
ConsumerId == 1

\* The call that a client sends next.
NextCall(c) == pc[c] = "idle" /\ (IF c = 1 THEN TRUE ELSE pc[c - 1] # "idle")

\* Topics are opaque to the broker and to the consumer, so the first call of a
\* run names the first topic.
FirstTopic(c, t) == c = 1 => t = "news"

\* stream.cancel(), or the end of the channel: the context of the call is no
\* longer active.
Cancelled(st) ==
    CASE st = "active" -> "closed"
      [] st = "no_send" -> "fault"
      [] OTHER -> st

\* The client sends request req as call c.  A server that is not started, or
\* was stopped, refuses the call: no handler runs, a unary call raises
\* grpc.RpcError in the client and the stream of a Subscribe call raises it at
\* the first next().
Send(c, req) ==
    /\ NextCall(c)
    /\ calls' = [calls EXCEPT ![c] = req]
    /\ IF serving
       THEN /\ pc' = [pc EXCEPT ![c] = "queued"]
            /\ queue' = Append(queue, c)
            /\ UNCHANGED stream
       ELSE /\ pc' = [pc EXCEPT ![c] = "refused"]
            /\ stream' = [stream EXCEPT ![c] = Cancelled(@)]
            /\ UNCHANGED queue
    /\ UNCHANGED server

\* topic in self.subscriptions
HasTopic(subs, t) == \E n \in 1..Len(subs) : subs[n].topic = t

\* self.subscriptions[topic][0]
StreamOf(subs, t) == (CHOOSE n \in 1..Len(subs) : subs[n].topic = t)

\* del self.subscriptions[topic]
DelTopic(subs, t) == SelectSeq(subs, LAMBDA x : x.topic # t)

\* Consumer.subscribe(topic): the whole method runs under self.lock.
\* client.Subscribe sends call c; the receive thread gets the same number.
ConsumerSubscribe(t, c) ==
    /\ main.at = "idle"
    /\ consumer_lock = "free"
    /\ ~HasTopic(subscriptions, t)
    /\ FirstTopic(c, t)
    /\ Send(c, [kind |-> "subscribe", topic |-> t, id |-> ConsumerId, message |-> "none"])
    /\ subscriptions' = Append(subscriptions, [topic |-> t, stream |-> c])
    /\ receive' = [receive EXCEPT ![c] = "while"]
    /\ UNCHANGED <<subscribers, topic_subscribers_mutex, lock, sent, iter,
                   broker_subscribers, result, snap, attempts, lastEvent, before,
                   messages, consumer_lock, holds, msg, taken, main>>

\* Consumer.unsubscribe(topic), lines 100-103: take self.lock, cancel the stream.
ConsumerUnsubscribeCancel(t) ==
    /\ main.at = "idle"
    /\ consumer_lock = "free"
    /\ HasTopic(subscriptions, t)
    /\ consumer_lock' = "main"
    /\ stream' = [stream EXCEPT ![subscriptions[StreamOf(subscriptions, t)].stream] =
                     Cancelled(@)]
    /\ main' = [at |-> "unsubscribe", topic |-> t, call |-> NoCall]
    /\ UNCHANGED <<server, calls, pc, queue, subscribers, topic_subscribers_mutex, lock, sent, iter,
                   broker_subscribers, result, snap, attempts, lastEvent, before,
                   subscriptions, messages, receive, holds, msg, taken>>

\* Consumer.unsubscribe(topic), lines 104-105: delete the entry and send the
\* Unsubscribe call c; the thread waits for its answer, holding self.lock.
ConsumerUnsubscribeDel(c) ==
    /\ main.at \in {"unsubscribe", "close_unsubscribe"}
    /\ Send(c, [kind |-> "unsubscribe", topic |-> main.topic, id |-> ConsumerId,
                message |-> "none"])
    /\ subscriptions' = DelTopic(subscriptions, main.topic)
    /\ main' = [at |-> IF main.at = "unsubscribe" THEN "unsubscribe_rpc" ELSE "close_rpc",
                topic |-> main.topic, call |-> c]
    /\ UNCHANGED <<subscribers, topic_subscribers_mutex, lock, sent, iter,
                   broker_subscribers, result, snap, attempts, lastEvent, before,
                   messages, consumer_lock, receive, holds, msg, taken>>

\* The answer of the Unsubscribe call is there: unsubscribe returns.  Inside
\* close() the lock stays with the main thread.
ConsumerUnsubscribeReturn ==
    /\ main.at \in {"unsubscribe_rpc", "close_rpc"}
    /\ pc[main.call] = "done"
    /\ consumer_lock' = IF main.at = "unsubscribe_rpc" THEN "free" ELSE "main"
    /\ main' = [at |-> IF main.at = "unsubscribe_rpc" THEN "idle" ELSE "close",
                topic |-> "none", call |-> NoCall]
    /\ UNCHANGED <<brokerVars, subscriptions, messages, receive, holds, msg, taken>>

\* client.Unsubscribe raises grpc.RpcError before the answer is there: the
\* exception leaves unsubscribe, and close() if it is the caller, and every
\* with block on the way releases self.lock.
ConsumerUnsubscribeRaise ==
    /\ main.at \in {"unsubscribe_rpc", "close_rpc"}
    /\ pc[main.call] # "done"
    /\ consumer_lock' = "free"
    /\ main' = [at |-> "idle", topic |-> "none", call |-> NoCall]
    /\ UNCHANGED <<brokerVars, subscriptions, messages, receive, holds, msg, taken>>

\* Consumer.close(), line 117: take self.lock.
ConsumerClose ==
    /\ main.at = "idle"
    /\ consumer_lock = "free"
    /\ consumer_lock' = "main"
    /\ main' = [at |-> "close", topic |-> "none", call |-> NoCall]
    /\ UNCHANGED <<brokerVars, subscriptions, messages, receive, holds, msg, taken>>

\* Consumer.close(), lines 118-119: the next topic of the list; unsubscribe
\* takes the RLock again and cancels the stream.
ConsumerCloseCancel ==
    /\ main.at = "close"
    /\ subscriptions # <<>>
    /\ stream' = [stream EXCEPT ![Head(subscriptions).stream] = Cancelled(@)]
    /\ main' = [at |-> "close_unsubscribe", topic |-> Head(subscriptions).topic,
                call |-> NoCall]
    /\ UNCHANGED <<server, calls, pc, queue, subscribers, topic_subscribers_mutex, lock, sent, iter,
                   broker_subscribers, result, snap, attempts, lastEvent, before,
                   subscriptions, messages, consumer_lock, receive, holds, msg, taken>>

\* Consumer.close(), line 120: self.conn.close() ends every stream of the
\* channel; the with block ends.
ConsumerCloseEnd ==
    /\ main.at = "close"
    /\ subscriptions = <<>>
    /\ stream' = [c \in DOMAIN stream |->
                     IF calls[c].kind = "subscribe" THEN Cancelled(stream[c]) ELSE stream[c]]
    /\ consumer_lock' = "free"
    /\ main' = [at |-> "closed", topic |-> "none", call |-> NoCall]
    /\ UNCHANGED <<server, calls, pc, queue, subscribers, topic_subscribers_mutex, lock, sent, iter,
                   broker_subscribers, result, snap, attempts, lastEvent, before,
                   subscriptions, messages, receive, holds, msg, taken>>

\* while not self.subscriptions[topic][1].is_set(): the lookup raises KeyError
\* when the topic is not in the dict; the Event is never set.
ReceiveWhile(n) ==
    /\ receive[n] = "while"
    /\ receive' = [receive EXCEPT ![n] =
                      IF HasTopic(subscriptions, calls[n].topic) THEN "try" ELSE "KeyError"]
    /\ UNCHANGED <<brokerVars, subscriptions, messages, consumer_lock, holds, msg, taken,
                   main>>

\* self.subscriptions[topic][0], the argument of next(): a second lookup,
\* inside the try, whose KeyError `except grpc.RpcError` does not catch.  It
\* gives the stream that the dict holds for the topic now.
ReceiveLookup(n) ==
    /\ receive[n] = "try"
    /\ IF HasTopic(subscriptions, calls[n].topic)
       THEN /\ receive' = [receive EXCEPT ![n] = "next"]
            /\ holds' = [holds EXCEPT ![n] =
                            subscriptions[StreamOf(subscriptions, calls[n].topic)].stream]
       ELSE /\ receive' = [receive EXCEPT ![n] = "KeyError"]
            /\ UNCHANGED holds
    /\ UNCHANGED <<brokerVars, subscriptions, messages, consumer_lock, msg, taken, main>>

\* msg = next(stream): blocks until a message is there or the stream has
\* ended; except grpc.RpcError: break.
ReceiveNext(n) ==
    /\ receive[n] = "next"
    /\ IF ~is_active(stream[holds[n]])
       THEN /\ receive' = [receive EXCEPT ![n] = "exited"]
            /\ UNCHANGED <<msg, taken>>
       ELSE /\ taken[holds[n]] < Len(sent[holds[n]])
            /\ msg' = [msg EXCEPT ![n] = <<sent[holds[n]][taken[holds[n]] + 1]>>]
            /\ taken' = [taken EXCEPT ![holds[n]] = @ + 1]
            /\ receive' = [receive EXCEPT ![n] = "append"]
    /\ UNCHANGED <<brokerVars, subscriptions, messages, consumer_lock, holds, main>>

\* with self.lock: self.messages.append(msg)
ReceiveAppend(n) ==
    /\ receive[n] = "append"
    /\ consumer_lock = "free"
    /\ messages' = Append(messages, msg[n][1])
    /\ receive' = [receive EXCEPT ![n] = "while"]
    /\ UNCHANGED <<brokerVars, subscriptions, consumer_lock, holds, msg, taken, main>>

\* Publisher.publish(topic, message): the publisher sends call c.
PublisherPublish(t, c) ==
    /\ Cardinality({d \in Calls : calls[d].kind = "publish"}) < MaxPublishes
    /\ FirstTopic(c, t)
    /\ \E m \in Msgs :
          Send(c, [kind |-> "publish", topic |-> t, id |-> 0, message |-> m])
    /\ UNCHANGED <<consumerVars, subscribers, topic_subscribers_mutex, lock, sent,
                   iter, broker_subscribers, result, snap, attempts, lastEvent, before>>

ConsumerNext ==
    \/ \E t \in Topics, c \in Calls : ConsumerSubscribe(t, c)
    \/ \E t \in Topics : ConsumerUnsubscribeCancel(t)
    \/ \E c \in Calls : ConsumerUnsubscribeDel(c)
    \/ ConsumerUnsubscribeReturn
    \/ ConsumerUnsubscribeRaise
    \/ ConsumerClose
    \/ ConsumerCloseCancel
    \/ ConsumerCloseEnd
    \/ \E n \in Calls : ReceiveWhile(n)
    \/ \E n \in Calls : ReceiveLookup(n)
    \/ \E n \in Calls : ReceiveNext(n)
    \/ \E n \in Calls : ReceiveAppend(n)
    \/ \E t \in Topics, c \in Calls : PublisherPublish(t, c)
    \/ start
    \/ Dispatch
    \/ \E c \in Calls : StreamEnd(c)
    \/ stop
    \/ \E c \in Calls : SubscribeRegister(c)
    \/ \E c \in Calls : SubscribePoll(c)
    \/ \E c \in Calls : Unsubscribe(c)
    \/ \E c \in Calls : PublishEnter(c)
    \/ \E c \in Calls : PublishAcquire(c)
    \/ \E c \in Calls : PublishSend(c)
    \/ \E c \in Calls : PublishFinish(c)

ConsumerSpec == Init /\ [][ConsumerNext]_vars

\* The position in the buffer of the k-th message that the broker wrote to
\* stream s.
BufferedAt(s, k) == CHOOSE n \in 1..Len(messages) : messages[n] = sent[s][k]

(***************************************************************************)
(* C20 (Consumer receive loop shutdown): under every interleaving of       *)
(* unsubscribe or close with the receive loops, no loop looks up a         *)
(* subscription entry that has been removed and none ends with an error    *)
(* that is not handled; and the buffer holds the messages of each stream   *)
(* in the order of their arrival.                                          *)
(***************************************************************************)
C20_ReceiveLoopShutdown ==
    /\ \A n \in Calls : receive[n] # "KeyError"
    /\ \A s \in Calls :
          \A j, k \in 1..Len(sent[s]) :
              (/\ j < k
               /\ \E n \in 1..Len(messages) : messages[n] = sent[s][j]
               /\ \E n \in 1..Len(messages) : messages[n] = sent[s][k])
                  => BufferedAt(s, j) < BufferedAt(s, k)

====
